---- MODULE Spec2Model ----
(***************************************************************************)
(* The background job orchestrator of InLink-Prospector                    *)
(* (src/job_manager.py) with the page loop it drives                       *)
(* (src/analyzer.py, LinkAnalyzer.generate_link_suggestions).              *)
(*                                                                         *)
(* Threads: thread 0 is the caller of the JobManager (the controller);     *)
(* threads 1..MaxWorkers are the threads started by start_background_job.  *)
(* Every step is one file-system operation of the code (an open for        *)
(* writing, the write at close, a read, a remove) or one call of the       *)
(* analysis collaborator, so that the interleavings of the threads on the  *)
(* job files are the ones the code allows.                                 *)
(***************************************************************************)
EXTENDS Integers, Sequences, FiniteSets, TLC

\* Rows of the input table df; create_job is called with total_pages = len(df).
NumPages == 2
\* Threads that start_background_job may start in one run of the model.
MaxWorkers == 2
\* get_job, pause_job, resume_job, stop_job and delete_job calls of the caller in
\* one run of the model (create_job and the first start_background_job of a job
\* come on top; a start_background_job for a job started before is counted).
MaxCalls == 2
\* Rows the analysis step may return for one page.
MaxRows == 1
\* Characters of a job_id that the caller alone on a jobs_dir passes to create_job.
MaxIdLen == 2
\* The largest total_pages that caller passes to create_job.
MaxTotal == 2
\* Rows of a frame that caller passes to save_partial_results.
MaxSaved == 2
\* The latest reading of datetime.now() that create_job stamps a record with.
MaxClock == 2
\* Pages of the site the crawler is pointed at.
SitePages == 2
\* Links on one page of the site.
MaxLinks == 2
\* The largest max_pages a WebCrawler is built with.
MaxMaxPages == 3

AllJobs == {"A", "B"}
Controller == 0
Workers == 1..MaxWorkers
Threads == {Controller} \cup Workers
\* The row labels of df: a default RangeIndex 0..len(df)-1.
Pages == [k \in 1..NumPages |-> k - 1]

QUEUED == "queued"
RUNNING == "running"
PAUSED == "paused"
COMPLETED == "completed"
FAILED == "failed"
STOPPED == "stopped"
JobStatus == {QUEUED, RUNNING, PAUSED, COMPLETED, FAILED, STOPPED}

VARIABLES
  th,        \* th[t]: the position and the locals of thread t
  jobFile,   \* jobFile[j]: what jobs_dir/<j>.json holds
  resFile,   \* resFile[j]: what jobs_dir/<j>_results.csv holds
  allSug,    \* allSug[w]: the list all_suggestions of worker w's run_job closure
  wrappers,  \* wrappers[a]: the workers whose wrapped_analyze is installed on analyzer a
  created,   \* the job ids the caller has passed to create_job
  started,   \* the job ids the caller has passed to start_background_job
  shown,     \* shown[j]: the last complete record written to jobFile[j] (history)
  stopDone,  \* stopDone[j]: a stop_job(j) has written STOPPED (history)
  log,       \* log[w]: the page labels worker w handed to the analysis step (history)
  reports,   \* reports[w]: the (current, total) pairs of w's progress reports (history)
  calls,     \* the get, pause, resume, stop and delete calls the caller has made
  perPage,   \* the number of rows the analysis step returns for a page of this site
  ops,       \* the kinds of call counted in calls that the caller has made (history)
  probe      \* a caller alone on a jobs_dir of its own: its inputs, the file, its results

vars == <<probe, ops, calls, perPage, th, jobFile, resFile, allSug, wrappers, created, started, shown,
          stopDone, log, reports>>

-----------------------------------------------------------------------------
(* Job records and the job file *)

NoRec == [job_id |-> "", status |-> "", total_pages |-> 0, current_page |-> 0,
          created_at |-> "", config |-> "", error |-> "null"]

\* datetime.now().isoformat() when create_job is called, and at a later call.
CreatedAt == "t0"
Later == "t1"

\* The record create_job builds.
NewJob(j, total, cfg) ==
  [job_id |-> j, status |-> QUEUED, total_pages |-> total, current_page |-> 0,
   created_at |-> CreatedAt, config |-> cfg, error |-> "null"]

\* An updates dictionary: "keep" (status, error) and -1 (current_page) stand for
\* a key that is not in the dictionary.
NoUpd == [status |-> "keep", current_page |-> -1, error |-> "keep"]
Upd(s, cp, e) == [status |-> s, current_page |-> cp, error |-> e]

\* An update_job that would build the record anew from the updates and lose the
\* current_page and the error that are not named.
ApplyUpdatesAnew(rec, u) ==
  [rec EXCEPT !.status = IF u.status = "keep" THEN @ ELSE u.status,
              !.current_page = IF u.current_page = -1 THEN 0 ELSE u.current_page,
              !.error = IF u.error = "keep" THEN "null" ELSE u.error]

\* An update_job that would stamp created_at with the time of the update.
ApplyUpdatesStamped(rec, u) ==
  [rec EXCEPT !.status = IF u.status = "keep" THEN @ ELSE u.status,
              !.current_page = IF u.current_page = -1 THEN @ ELSE u.current_page,
              !.error = IF u.error = "keep" THEN @ ELSE u.error,
              !.created_at = Later]

\* job_data.update(updates): the keys of updates, and no other key
ApplyUpdates(rec, u) ==
  [rec EXCEPT !.status = IF u.status = "keep" THEN @ ELSE u.status,
              !.current_page = IF u.current_page = -1 THEN @ ELSE u.current_page,
              !.error = IF u.error = "keep" THEN @ ELSE u.error]

Digits(n) == IF n < 10 THEN 1 ELSE 2

\* The part of the length of json.dump(job_data) that depends on the record: the
\* status string, the digits of current_page and the error (null or a string).
RecLen(rec) ==
  Len(rec.status) + Digits(rec.current_page)
    + (IF rec.error = "null" THEN 4 ELSE Len(rec.error) + 2)

Absent == [kind |-> "absent", rec |-> NoRec, len |-> 0]
Empty == [kind |-> "empty", rec |-> NoRec, len |-> 0]
Json(rec) == [kind |-> "json", rec |-> rec, len |-> RecLen(rec)]
Garbage(n) == [kind |-> "garbage", rec |-> NoRec, len |-> n]

\* open(job_file, 'w'): the file is created or truncated at once.
OpenW(f) == Empty

\* json.dump through a handle opened earlier, flushed at close: the bytes go to
\* offset 0 of whatever the file holds by then. Bytes another writer has put
\* beyond the end of this record stay behind it.
WriteRec(f, rec) ==
  IF f.kind = "empty" \/ RecLen(rec) >= f.len THEN Json(rec) ELSE Garbage(f.len)

\* What get_job does on a file: "none" (no file), "raise" (json.load fails) or
\* "json" (the record).
GetJobOutcome(f) ==
  CASE f.kind = "absent" -> "none"
    [] f.kind = "json" -> "json"
    [] OTHER -> "raise"

-----------------------------------------------------------------------------
(* Result rows and the results file *)

NoRows == <<>>
ResAbsent == [kind |-> "absent", rows |-> NoRows]
ResEmpty == [kind |-> "empty", rows |-> NoRows]
\* to_csv of a frame with no columns writes a line break only.
ResBlank == [kind |-> "blank", rows |-> NoRows]
Csv(rows) == [kind |-> "csv", rows |-> rows]

\* A save_partial_results that would close the file without writing the rows.
WriteRowsNothing(f, rows) == f

\* results_df.to_csv(results_file, index=False) through a handle opened earlier:
\* rows another writer has put beyond the end of these rows stay behind them (the
\* rows of one job have equal lengths).
WriteRows(f, rows) ==
  CASE f.kind \in {"csv", "blank"} /\ Len(rows) < Len(f.rows) ->
         Csv(rows \o SubSeq(f.rows, Len(rows) + 1, Len(f.rows)))
    [] rows = NoRows -> ResBlank
    [] OTHER -> Csv(rows)

\* load_partial_results: "none", "raise" (pd.read_csv finds no columns) or "rows".
LoadOutcome(f) ==
  CASE f.kind = "absent" -> "none"
    [] f.kind = "csv" -> "rows"
    [] OTHER -> "raise"

-----------------------------------------------------------------------------
(* Threads *)

IdleThread ==
  [pc |-> "idle", job |-> "A", op |-> "none", seen |-> "", upd |-> NoUpd,
   cont |-> "ret", tmp |-> NoRec, rjob |-> "A", rows |-> NoRows, orphan |-> FALSE,
   handler |-> FALSE, an |-> 0, start |-> 0, dfp |-> <<>>, i |-> 0,
   sug |-> NoRows, res |-> NoRows, chain |-> <<>>]

\* A thread between the open and the close of the job file of j, of its results file.
HoldsJobFile(t, j) == th[t].job = j /\ th[t].pc = "sj_write"
HoldsResFile(t, j) == th[t].rjob = j /\ th[t].pc = "rs_write"

Live(w) == th[w].pc \notin {"idle", "done", "dead"}
FreeWorkers == {w \in Workers : th[w].pc = "idle" /\ th[w].op = "none"}

\* An exception in thread t (record r): in the controller it reaches the caller;
\* in run_job it reaches the except clause, which calls update_job(FAILED); raised
\* in the except clause itself it ends the thread.
Raise(t, r) ==
  IF t = Controller THEN [r EXCEPT !.pc = "raised"]
  ELSE IF r.handler
       THEN [r EXCEPT !.pc = "dead", !.upd = NoUpd, !.cont = "ret", !.dfp = <<>>,
                      !.i = 0, !.sug = NoRows]
  ELSE [r EXCEPT !.pc = "uj_get", !.upd = Upd(FAILED, -1, "err"), !.cont = "done",
                 !.handler = TRUE, !.res = NoRows, !.chain = <<>>]

\* An update_progress that would write the index of the page as current_page.
ProgressSetupStale(r) ==
  [r EXCEPT !.sug = @ \o r.res, !.pc = "uj_get", !.res = NoRows, !.rows = NoRows,
            !.rjob = r.job, !.chain = <<>>,
            !.upd = Upd(RUNNING, r.dfp[r.i], "keep"), !.cont = "w_next"]

\* update_progress(idx + 1, total_pages) after the page dfp[i]: suggestions.extend,
\* then update_job with the new current_page and status RUNNING.
ProgressStatus == RUNNING
ProgressSetup(r) ==
  [r EXCEPT !.sug = @ \o r.res, !.pc = "uj_get", !.res = NoRows, !.rows = NoRows,
            !.rjob = r.job, !.chain = <<>>,
            !.upd = Upd(ProgressStatus, r.dfp[r.i] + 1, "keep"), !.cont = "w_next"]

\* wrapped_analyze after original_analyze has returned r.res: each wrapper of the
\* chain, innermost first, extends its own all_suggestions and saves it when it is
\* not empty. Gives <<the thread, all_suggestions>> at the next file operation.
RECURSIVE WrapFrom(_, _)
WrapFrom(r, all) ==
  IF r.chain = <<>> THEN <<ProgressSetup(r), all>>
  ELSE LET v == Head(r.chain)
           a2 == [all EXCEPT ![v] = @ \o r.res]
       IN IF Len(a2[v]) > 0
          THEN <<[r EXCEPT !.pc = "rs_open", !.rjob = th[v].job, !.rows = a2[v],
                           !.chain = Tail(r.chain), !.cont = "w_wrap"], a2>>
          ELSE WrapFrom([r EXCEPT !.chain = Tail(r.chain)], a2)

\* A completion that would count one page less than the table has.
LenDfShort == NumPages - 1

\* A completion that would count one page more than the table has.
LenDfLong == NumPages + 1

\* len(df), the current_page that run_job writes with COMPLETED.
LenDf == NumPages

\* Where a thread goes on when update_job or save_partial_results returns.
\* After update_progress the loop sleeps and goes to the next row of df_to_process.
\* The locals of the call that returned are dropped.
Return(r) ==
  LET q == [r EXCEPT !.upd = NoUpd, !.tmp = NoRec, !.rows = NoRows, !.rjob = r.job,
                     !.res = NoRows, !.chain = <<>>, !.cont = "ret"]
  IN CASE r.cont = "w_comp" ->
            [q EXCEPT !.pc = "uj_get", !.upd = Upd(COMPLETED, LenDf, "keep"),
                      !.cont = "done"]
       [] r.cont = "w_next" ->
            [q EXCEPT !.i = @ + 1,
                      !.pc = IF r.i + 1 > Len(r.dfp) THEN "w_final" ELSE "w_check"]
       [] r.cont = "done" ->
            [q EXCEPT !.pc = "done", !.dfp = <<>>, !.i = 0, !.sug = NoRows]
       [] OTHER -> [q EXCEPT !.pc = r.cont]

\* A progress report that would carry the index of the page.
ReportIndex(r) == <<r.dfp[r.i], Len(r.dfp)>>

\* progress_callback(idx + 1, total_pages) with total_pages = len(df) of the
\* frame generate_link_suggestions was given.
Report(r) == <<r.dfp[r.i] + 1, Len(r.dfp)>>

\* update_progress calls the caller's progress_callback when update_job returns.
Reported(t, returns) ==
  IF returns /\ th[t].cont = "w_next"
  THEN [reports EXCEPT ![t] = Append(@, Report(th[t]))] ELSE reports

-----------------------------------------------------------------------------
(* update_job, _save_job and save_partial_results, in any thread *)

\* update_job: job_data = self.get_job(job_id); if job_data: update and save.
UjGet(t) ==
  /\ th[t].pc = "uj_get"
  /\ LET f == jobFile[th[t].job]
         o == GetJobOutcome(f)
     IN /\ th' = [th EXCEPT ![t] =
                 CASE o = "none" -> Return(th[t])
                   [] o = "raise" -> Raise(t, th[t])
                   [] OTHER -> [th[t] EXCEPT !.tmp = ApplyUpdates(f.rec, th[t].upd),
                                             !.upd = NoUpd, !.pc = "sj_open"]]
        /\ reports' = Reported(t, o = "none")
  /\ UNCHANGED <<probe, perPage, calls, ops, jobFile, resFile, allSug, wrappers, created, started, shown,
                 stopDone, log>>

\* _save_job: with open(job_file, 'w') as f
SjOpen(t) ==
  /\ th[t].pc = "sj_open"
  /\ jobFile' = [jobFile EXCEPT ![th[t].job] = OpenW(@)]
  /\ th' = [th EXCEPT ![t].pc = "sj_write", ![t].orphan = FALSE]
  /\ UNCHANGED <<probe, perPage, calls, ops, resFile, allSug, wrappers, created, started, shown, stopDone,
                 log, reports>>

\* _save_job: json.dump(job_data, f, indent=2) and the close that flushes it. A
\* handle whose file was removed meanwhile writes to no path.
SjWrite(t) ==
  /\ th[t].pc = "sj_write"
  /\ LET j == th[t].job
         f2 == IF th[t].orphan THEN jobFile[j] ELSE WriteRec(jobFile[j], th[t].tmp)
         landed == ~th[t].orphan /\ f2.kind = "json"
     IN /\ jobFile' = [jobFile EXCEPT ![j] = f2]
        /\ shown' = IF landed THEN [shown EXCEPT ![j] = f2.rec] ELSE shown
        /\ stopDone' = IF landed /\ t = Controller /\ th[t].op = "stop"
                       THEN [stopDone EXCEPT ![j] = TRUE] ELSE stopDone
  /\ th' = [th EXCEPT ![t] = Return([th[t] EXCEPT !.orphan = FALSE])]
  /\ reports' = Reported(t, TRUE)
  /\ UNCHANGED <<probe, perPage, calls, ops, resFile, allSug, wrappers, created, started, log>>

\* save_partial_results: to_csv opens results_file for writing
RsOpen(t) ==
  /\ th[t].pc = "rs_open"
  /\ resFile' = [resFile EXCEPT ![th[t].rjob] = ResEmpty]
  /\ th' = [th EXCEPT ![t].pc = "rs_write", ![t].orphan = FALSE]
  /\ UNCHANGED <<probe, perPage, calls, ops, jobFile, allSug, wrappers, created, started, shown, stopDone,
                 log, reports>>

\* save_partial_results: to_csv writes the rows and closes
RsWrite(t) ==
  /\ th[t].pc = "rs_write"
  /\ resFile' = [resFile EXCEPT ![th[t].rjob] =
                   IF th[t].orphan THEN @ ELSE WriteRows(@, th[t].rows)]
  /\ LET r == [th[t] EXCEPT !.orphan = FALSE]
         nxt == IF r.cont = "w_wrap" THEN WrapFrom(r, allSug)
                ELSE <<Return(r), allSug>>
     IN /\ th' = [th EXCEPT ![t] = nxt[1]]
        /\ allSug' = nxt[2]
  /\ UNCHANGED <<probe, perPage, calls, ops, jobFile, wrappers, created, started, shown, stopDone, log, reports>>

-----------------------------------------------------------------------------
(* The caller of the JobManager: thread 0 *)

CtlIdle == th[Controller].pc = "idle"
Call(op, j) == [IdleThread EXCEPT !.op = op, !.job = j, !.rjob = j]

\* create_job(job_id, total_pages, config), called once for an id, with
\* total_pages = len(df)
CreateJob(j) ==
  /\ CtlIdle
  /\ j \notin created
  /\ created' = created \cup {j}
  /\ th' = [th EXCEPT ![Controller] =
              [Call("create", j) EXCEPT !.tmp = NewJob(j, NumPages, "cfg"),
                                        !.pc = "sj_open", !.cont = "ret"]]
  /\ UNCHANGED <<probe, perPage, calls, ops, jobFile, resFile, allSug, wrappers, started, shown, stopDone,
                 log, reports>>

\* A get_job(job_id) of the caller: what it returns is th[0].seen ("none" or the
\* status of the record) and th[0].tmp, at pc "ret".
SeenOf(f) == IF f.kind = "json" THEN f.rec.status ELSE "none"
GetJob(j) ==
  /\ calls < MaxCalls
  /\ calls' = calls + 1
  /\ ops' = ops \cup {"get"}
  /\ CtlIdle
  /\ LET f == jobFile[j]
     IN th' = [th EXCEPT ![Controller] =
                 IF GetJobOutcome(f) = "raise" THEN Raise(Controller, Call("get", j))
                 ELSE [Call("get", j) EXCEPT !.seen = SeenOf(f), !.tmp = f.rec,
                                             !.pc = "ret"]]
  /\ UNCHANGED <<probe, perPage, jobFile, resFile, allSug, wrappers, created, started, shown,
                 stopDone, log, reports>>

\* A pause_job that would also take a job that has not started yet.
PauseEffectiveLoose(status) == status \in {RUNNING, QUEUED}

\* A stop_job that would also take a job that has not started yet.
StopEffectiveLoose(status) == status \in {RUNNING, PAUSED, QUEUED}

\* The guards of pause_job, resume_job and stop_job on job_data['status'].
PauseEffective(status) == status = RUNNING
ResumeEffective(status) == status = PAUSED
StopEffective(status) == status \in {RUNNING, PAUSED}

\* The first get_job of pause_job, resume_job or stop_job and the branch on it:
\* the call goes on to update_job(u) when the guard holds, and returns otherwise.
Guarded(op, j, effective, u, cont) ==
  LET f == jobFile[j] IN
  IF GetJobOutcome(f) = "raise" THEN Raise(Controller, Call(op, j))
  ELSE IF f.kind = "json" /\ effective
       THEN [Call(op, j) EXCEPT !.seen = f.rec.status, !.upd = u, !.pc = "uj_get",
                                !.cont = cont]
       ELSE [Call(op, j) EXCEPT !.seen = SeenOf(f), !.pc = "ret"]

PauseJob(j) ==
  /\ calls < MaxCalls
  /\ calls' = calls + 1
  /\ ops' = ops \cup {"pause"}
  /\ CtlIdle
  /\ th' = [th EXCEPT ![Controller] =
              Guarded("pause", j, PauseEffective(jobFile[j].rec.status),
                      Upd(PAUSED, -1, "keep"), "ret")]
  /\ UNCHANGED <<probe, perPage, jobFile, resFile, allSug, wrappers, created, started, shown,
                 stopDone, log, reports>>

\* resume_job: update_job(RUNNING), then start_background_job
ResumeJob(j) ==
  /\ calls < MaxCalls
  /\ calls' = calls + 1
  /\ ops' = ops \cup {"resume"}
  /\ CtlIdle
  /\ FreeWorkers # {}
  /\ th' = [th EXCEPT ![Controller] =
              Guarded("resume", j, ResumeEffective(jobFile[j].rec.status),
                      Upd(RUNNING, -1, "keep"), "spawn")]
  /\ UNCHANGED <<probe, perPage, jobFile, resFile, allSug, wrappers, created, started, shown,
                 stopDone, log, reports>>

StopJob(j) ==
  /\ calls < MaxCalls
  /\ calls' = calls + 1
  /\ ops' = ops \cup {"stop"}
  /\ CtlIdle
  /\ th' = [th EXCEPT ![Controller] =
              Guarded("stop", j, StopEffective(jobFile[j].rec.status),
                      Upd(STOPPED, -1, "keep"), "ret")]
  /\ UNCHANGED <<probe, perPage, jobFile, resFile, allSug, wrappers, created, started, shown,
                 stopDone, log, reports>>

\* start_background_job called by the caller, once for a job id it has created
StartJob(j) ==
  /\ CtlIdle
  /\ j \in created
  /\ j \notin started
  /\ FreeWorkers # {}
  /\ started' = started \cup {j}
  /\ th' = [th EXCEPT ![Controller] = [Call("start", j) EXCEPT !.pc = "spawn"]]
  /\ UNCHANGED <<probe, perPage, calls, ops, jobFile, resFile, allSug, wrappers, created, shown, stopDone,
                 log, reports>>

\* start_background_job: threading.Thread(target=run_job).start(), with analyzer a
NewWorker(j, a) == [IdleThread EXCEPT !.pc = "w_start", !.job = j, !.rjob = j,
                                      !.op = "run", !.an = a]
Spawn(w, a) ==
  /\ th[Controller].pc = "spawn"
  /\ w \in FreeWorkers
  /\ \A v \in FreeWorkers : w <= v
  /\ th' = [th EXCEPT ![Controller].pc = "ret",
                      ![w] = NewWorker(th[Controller].job, a)]
  /\ UNCHANGED <<probe, perPage, calls, ops, jobFile, resFile, allSug, wrappers, created, started, shown,
                 stopDone, log, reports>>

\* The caller passes a LinkAnalyzer of its own to every start and resume.
SpawnFresh == \E w \in Workers : Spawn(w, w)

\* delete_job: os.remove(job_file) when it exists
DeleteJob(j) ==
  /\ calls < MaxCalls
  /\ calls' = calls + 1
  /\ ops' = ops \cup {"delete"}
  /\ CtlIdle
  /\ jobFile' = [jobFile EXCEPT ![j] = Absent]
  /\ shown' = [shown EXCEPT ![j] = NoRec]
  /\ th' = [t \in Threads |->
              IF t = Controller THEN [Call("delete", j) EXCEPT !.pc = "del_res"]
              ELSE IF HoldsJobFile(t, j) THEN [th[t] EXCEPT !.orphan = TRUE]
              ELSE th[t]]
  /\ UNCHANGED <<probe, perPage, resFile, allSug, wrappers, created, started, stopDone, log, reports>>

\* A delete_job that would remove the job file only.
DeleteResKeeps ==
  /\ th[Controller].pc = "del_res"
  /\ th' = [th EXCEPT ![Controller].pc = "ret"]
  /\ UNCHANGED <<probe, perPage, calls, ops, jobFile, resFile, allSug, wrappers, created, started,
                 shown, stopDone, log, reports>>

\* delete_job: os.remove(results_file) when it exists
DeleteRes ==
  /\ th[Controller].pc = "del_res"
  /\ resFile' = [resFile EXCEPT ![th[Controller].job] = ResAbsent]
  /\ th' = [t \in Threads |->
              IF t = Controller THEN [th[t] EXCEPT !.pc = "ret"]
              ELSE IF HoldsResFile(t, th[Controller].job)
                   THEN [th[t] EXCEPT !.orphan = TRUE]
              ELSE th[t]]
  /\ UNCHANGED <<probe, perPage, calls, ops, jobFile, allSug, wrappers, created, started, shown, stopDone,
                 log, reports>>

\* The call returns to the caller, with its value or with the exception.
CtlReturn ==
  /\ th[Controller].pc \in {"ret", "raised"}
  /\ th' = [th EXCEPT ![Controller] = IdleThread]
  /\ UNCHANGED <<probe, perPage, calls, ops, jobFile, resFile, allSug, wrappers, created, started, shown,
                 stopDone, log, reports>>

-----------------------------------------------------------------------------
(* run_job, the body of a worker thread, with generate_link_suggestions inlined *)

\* A run_job that would go on without a record.
WStartNoCheck(w) ==
  /\ th[w].pc = "w_start"
  /\ th' = [th EXCEPT ![w] = [th[w] EXCEPT !.start = 0, !.pc = "uj_get",
                                            !.upd = Upd(RUNNING, -1, "keep"),
                                            !.cont = "w_load"]]
  /\ UNCHANGED <<probe, perPage, calls, ops, jobFile, resFile, allSug, wrappers, created, started,
                 shown, stopDone, log, reports>>

\* job_data = self.get_job(job_id); return when there is none; else
\* update_job(RUNNING). start_page is job_data's current_page.
StartPage(rec) == rec.current_page
WStart(w) ==
  /\ th[w].pc = "w_start"
  /\ LET f == jobFile[th[w].job]
         o == GetJobOutcome(f)
     IN th' = [th EXCEPT ![w] =
                 CASE o = "none" -> [th[w] EXCEPT !.pc = "done"]
                   [] o = "raise" -> Raise(w, th[w])
                   [] OTHER -> [th[w] EXCEPT !.start = StartPage(f.rec),
                                             !.pc = "uj_get",
                                             !.upd = Upd(RUNNING, -1, "keep"),
                                             !.cont = "w_load"]]
  /\ UNCHANGED <<probe, perPage, calls, ops, jobFile, resFile, allSug, wrappers, created, started, shown,
                 stopDone, log, reports>>

\* A run_job that would hand the whole table to the page loop again.
DfWhole(start) == Pages

\* df_to_process = df.iloc[start_page:] if start_page > 0 else df
DfToProcess(start) == SubSeq(Pages, start + 1, NumPages)

\* load_partial_results into all_suggestions, analyzer._analyze_page =
\* wrapped_analyze, df_to_process, and the entry of generate_link_suggestions.
WLoad(w) ==
  /\ th[w].pc = "w_load"
  /\ LET f == resFile[th[w].job]
         o == LoadOutcome(f)
         dfp == DfToProcess(th[w].start)
     IN IF o = "raise"
        THEN /\ th' = [th EXCEPT ![w] = Raise(w, th[w])]
             /\ UNCHANGED <<probe, perPage, calls, ops, allSug, wrappers>>
        ELSE /\ allSug' = [allSug EXCEPT ![w] = IF o = "rows" THEN f.rows ELSE NoRows]
             /\ wrappers' = [wrappers EXCEPT ![th[w].an] = Append(@, w)]
             /\ th' = [th EXCEPT ![w] =
                         [th[w] EXCEPT !.dfp = dfp, !.i = 1, !.sug = NoRows,
                                       !.pc = IF dfp = <<>> THEN "w_final"
                                              ELSE "w_check"]]
  /\ UNCHANGED <<probe, perPage, calls, ops, jobFile, resFile, created, started, shown, stopDone, log, reports>>

\* A page loop that would not wait on PAUSED and would go on to the page.
StatusReactionNoPause(w, r) ==
  LET f == jobFile[r.job]
      o == GetJobOutcome(f)
  IN CASE o = "raise" -> Raise(w, r)
       [] o = "none" -> [r EXCEPT !.pc = "w_final"]
       [] o = "json" /\ f.rec.status = STOPPED -> [r EXCEPT !.pc = "w_final"]
       [] OTHER -> [r EXCEPT !.pc = "w_analyze", !.chain = wrappers[r.an]]

\* A page loop that would go on to the page when should_stop is returned for a
\* STOPPED record.
StatusReactionNoStop(w, r) ==
  LET f == jobFile[r.job]
      o == GetJobOutcome(f)
  IN CASE o = "raise" -> Raise(w, r)
       [] o = "none" -> [r EXCEPT !.pc = "w_final"]
       [] o = "json" /\ f.rec.status = PAUSED -> [r EXCEPT !.pc = "w_paused"]
       [] OTHER -> [r EXCEPT !.pc = "w_analyze", !.chain = wrappers[r.an]]

\* check_status() and what the page loop does with (should_pause, should_stop):
\* break, wait in the pause loop, or call _analyze_page for the page dfp[i].
StatusReaction(w, r) ==
  LET f == jobFile[r.job]
      o == GetJobOutcome(f)
  IN CASE o = "raise" -> Raise(w, r)
       [] o = "none" -> [r EXCEPT !.pc = "w_final"]
       [] o = "json" /\ f.rec.status = STOPPED -> [r EXCEPT !.pc = "w_final"]
       [] o = "json" /\ f.rec.status = PAUSED -> [r EXCEPT !.pc = "w_paused"]
       [] OTHER -> [r EXCEPT !.pc = "w_analyze", !.chain = wrappers[r.an]]

\* The status check at the head of the page loop.
WCheck(w) ==
  /\ th[w].pc = "w_check"
  /\ th' = [th EXCEPT ![w] = StatusReaction(w, th[w])]
  /\ log' = IF th'[w].pc = "w_analyze"
            THEN [log EXCEPT ![w] = Append(@, th[w].dfp[th[w].i])] ELSE log
  /\ UNCHANGED <<probe, perPage, calls, ops, jobFile, resFile, allSug, wrappers, created, started, shown,
                 stopDone, reports>>

\* while should_pause: time.sleep(1.0), then check_status() again.
WPoll(w) ==
  /\ th[w].pc = "w_paused"
  /\ th' = [th EXCEPT ![w] = StatusReaction(w, th[w])]
  /\ log' = IF th'[w].pc = "w_analyze"
            THEN [log EXCEPT ![w] = Append(@, th[w].dfp[th[w].i])] ELSE log
  /\ UNCHANGED <<probe, perPage, calls, ops, jobFile, resFile, allSug, wrappers, created, started, shown,
                 stopDone, reports>>

\* What the analysis step returns for page p: perPage rows, each naming p.
AnalysisRows(p) == {[k \in 1..perPage |-> p]}

\* The rows the analysis step returns for the pages with index a..b-1, in page
\* order.
RECURSIVE RowsOfPages(_, _)
RowsOfPages(a, b) ==
  IF a >= b THEN NoRows
  ELSE (CHOOSE r \in AnalysisRows(Pages[a + 1]) : TRUE) \o RowsOfPages(a + 1, b)

\* The rows the analysis step returns for the pages of the sequence ps, in the
\* order of ps.
RECURSIVE RowsFor(_)
RowsFor(ps) ==
  IF ps = <<>> THEN NoRows
  ELSE (CHOOSE r \in AnalysisRows(Head(ps)) : TRUE) \o RowsFor(Tail(ps))

\* The analysis step returns, and the wrappers run.
WAnalyze(w) ==
  /\ th[w].pc = "w_analyze"
  /\ \E rows \in AnalysisRows(th[w].dfp[th[w].i]) :
       LET nxt == WrapFrom([th[w] EXCEPT !.res = rows], allSug)
       IN /\ th' = [th EXCEPT ![w] = nxt[1]]
          /\ allSug' = nxt[2]
  /\ UNCHANGED <<probe, perPage, calls, ops, jobFile, resFile, wrappers, created, started, shown, stopDone,
                 log, reports>>

\* The analysis step raises.
WAnalyzeFails(w) ==
  /\ th[w].pc = "w_analyze"
  /\ th' = [th EXCEPT ![w] = Raise(w, th[w])]
  /\ UNCHANGED <<probe, perPage, calls, ops, jobFile, resFile, allSug, wrappers, created, started, shown,
                 stopDone, log, reports>>

\* After generate_link_suggestions: final_job = self.get_job(job_id); STOPPED is
\* written again with final_job's current_page; anything else (no record too)
\* saves suggestions_df and then writes COMPLETED.
WFinal(w) ==
  /\ th[w].pc = "w_final"
  /\ LET f == jobFile[th[w].job]
         o == GetJobOutcome(f)
     IN th' = [th EXCEPT ![w] =
                 CASE o = "raise" -> Raise(w, th[w])
                   [] o = "json" /\ f.rec.status = STOPPED ->
                        [th[w] EXCEPT !.pc = "uj_get",
                                      !.upd = Upd(STOPPED, f.rec.current_page, "keep"),
                                      !.cont = "done"]
                   [] OTHER -> [th[w] EXCEPT !.pc = "rs_open", !.rjob = th[w].job,
                                             !.rows = th[w].sug, !.cont = "w_comp"]]
  /\ UNCHANGED <<probe, perPage, calls, ops, jobFile, resFile, allSug, wrappers, created, started, shown,
                 stopDone, log, reports>>

-----------------------------------------------------------------------------
(* A caller alone on a jobs_dir of its own: create_job and get_job on the     *)
(* job_id, total_pages and config it passes, with the file name built from    *)
(* the job_id and the record taken through json.dump and json.load.           *)

\* Characters of a job_id: a letter and the path separator.
IdChars == {"a", "/"}
JobIds == UNION {[1..n -> IdChars] : n \in 0..MaxIdLen}

\* self.jobs_dir, one name, made by os.makedirs in __init__.
JobsDir == <<"jobs">>

\* f"{job_id}.json"
FileName(id) == id \o <<".json">>

\* os.path.join(dir, name): a name that starts with the separator is absolute
\* and replaces dir.
JoinPath(dir, name) ==
  IF name[1] = "/" THEN name ELSE dir \o <<"/">> \o name
JobFilePath(id) == JoinPath(JobsDir, FileName(id))

\* The directory a path names its file in, with the separator that ends it.
LastSlash(path) == CHOOSE i \in 1..Len(path) :
                     path[i] = "/" /\ \A k \in (i + 1)..Len(path) : path[k] # "/"
DirOf(path) == SubSeq(path, 1, LastSlash(path))
IsRoot(d) == \A i \in 1..Len(d) : d[i] = "/"
\* The directories there are: jobs_dir and the root.
DirExists(d) == d = JobsDir \o <<"/">> \/ IsRoot(d)

\* open(path, 'w'): needs the directory; the root takes the file only when the
\* process may write there.
OpenOutcome(path, rootOk) ==
  CASE ~DirExists(DirOf(path)) -> "FileNotFoundError"
    [] IsRoot(DirOf(path)) /\ ~rootOk -> "PermissionError"
    [] OTHER -> "ok"

\* The config dictionaries of the caller: the type of their keys and of their
\* values.
PyConfigs == [keys : {"str", "int"}, val : {"str", "int", "none", "tuple", "set"}]

\* json.dump of a config: keys are written as strings, a tuple as an array; a
\* set is not serializable.
JsonSerializable(c) == c.val # "set"
JsonDumpConfig(c) ==
  [keys |-> "string",
   val |-> CASE c.val = "str" -> "string"
             [] c.val = "int" -> "number"
             [] c.val = "none" -> "null"
             [] OTHER -> "array"]
\* json.load of what json.dump wrote.
JsonLoadConfig(t) ==
  [keys |-> "str",
   val |-> CASE t.val = "string" -> "str"
             [] t.val = "number" -> "int"
             [] t.val = "null" -> "none"
             [] OTHER -> "list"]

\* The job file of the probe: absent, the start of a record (json.dump raised
\* part way), or a whole record as text.
PAbsent == [kind |-> "absent", rec |-> NoRec]
PPartial == [kind |-> "partial", rec |-> NoRec]
PText(rec) == [kind |-> "json", rec |-> [rec EXCEPT !.config = JsonDumpConfig(@)]]
PLoad(f) == [f.rec EXCEPT !.config = JsonLoadConfig(@)]

NoProbe == [pc |-> "off", job_id |-> <<>>, total_pages |-> 0,
            config |-> [keys |-> "str", val |-> "str"], rootOk |-> FALSE,
            file |-> PAbsent, ret |-> NoRec]
ProbeInputs ==
  {[NoProbe EXCEPT !.pc = "new", !.job_id = id, !.total_pages = n, !.config = c,
                   !.rootOk = w] :
     id \in JobIds, n \in 0..MaxTotal, c \in PyConfigs, w \in BOOLEAN}

\* create_job(job_id, total_pages, config): the record, then _save_job.
PCreateJob ==
  /\ probe.pc = "new"
  /\ LET o == OpenOutcome(JobFilePath(probe.job_id), probe.rootOk)
         rec == NewJob(probe.job_id, probe.total_pages, probe.config)
     IN probe' =
          CASE o # "ok" -> [probe EXCEPT !.pc = "create_raised"]
            [] ~JsonSerializable(probe.config) ->
                 [probe EXCEPT !.pc = "create_raised", !.file = PPartial]
            [] OTHER -> [probe EXCEPT !.pc = "created", !.file = PText(rec)]
  /\ UNCHANGED <<perPage, calls, ops, th, jobFile, resFile, allSug, wrappers, created, started,
                 shown, stopDone, log, reports>>

\* get_job(job_id), right after create_job has returned or raised.
PGetJob ==
  /\ probe.pc \in {"created", "create_raised"}
  /\ probe' =
       CASE probe.file.kind = "absent" -> [probe EXCEPT !.pc = "got_none"]
         [] probe.file.kind = "partial" -> [probe EXCEPT !.pc = "get_raised"]
         [] OTHER -> [probe EXCEPT !.pc = "got", !.ret = PLoad(probe.file)]
  /\ UNCHANGED <<perPage, calls, ops, th, jobFile, resFile, allSug, wrappers, created, started,
                 shown, stopDone, log, reports>>

\* The updates dictionaries the caller passes to update_job: a status, a
\* current_page and an error string, each named or not.
ProbeUpdates ==
  {Upd(st, cp, e) : st \in {"keep", RUNNING, PAUSED}, cp \in {-1, 1, MaxTotal},
                    e \in {"keep", "err"}}

\* update_job(job_id, updates) on the record create_job or an earlier
\* update_job has left, no other thread at work: get_job (json.load),
\* job_data.update(updates), _save_job (json.dump). probe.upd is the dictionary.
PUpdateJob ==
  /\ probe.pc \in {"created", "updated"}
  /\ \E u \in ProbeUpdates :
       LET rec == ApplyUpdates(PLoad(probe.file), u)
       IN probe' = [pc |-> "updated", job_id |-> probe.job_id,
                    total_pages |-> probe.total_pages, config |-> probe.config,
                    rootOk |-> probe.rootOk, file |-> PText(rec), ret |-> NoRec,
                    upd |-> u]
  /\ UNCHANGED <<perPage, calls, ops, th, jobFile, resFile, allSug, wrappers, created, started,
                 shown, stopDone, log, reports>>

-----------------------------------------------------------------------------
(* A caller alone on a jobs_dir of its own: save_partial_results and           *)
(* load_partial_results on the frames it passes, taken through to_csv and      *)
(* read_csv. A row is its Anchor Text cell; the other cells are URLs.          *)

\* The strings a cell may hold: one with letters, one of digits only, the empty
\* string.
CellKinds == {"text", "digits", "blank"}
RowSeqs == UNION {[1..n -> CellKinds] : n \in 0..MaxSaved}

\* The field to_csv writes for a cell.
CsvField(c) ==
  CASE c = "text" -> "abc"
    [] c = "digits" -> "12"
    [] OTHER -> ""

\* results_df.to_csv(results_file, index=False): pd.DataFrame of no rows has no
\* columns and gives a line break only; else the header and a line for each row.
ToCsv(rows) ==
  IF rows = <<>> THEN [kind |-> "blank", fields |-> <<>>]
  ELSE [kind |-> "csv", fields |-> [n \in 1..Len(rows) |-> CsvField(rows[n])]]

\* The dtype pd.read_csv infers for a column from its fields: the empty field
\* is a missing value.
ColumnDtype(fields) ==
  IF \E n \in 1..Len(fields) : fields[n] = "abc" THEN "object"
  ELSE IF \E n \in 1..Len(fields) : fields[n] = "" THEN "float64"
  ELSE "int64"

\* The cell pd.read_csv gives for a field in a column of that dtype.
ReadCell(field, dtype) ==
  CASE field = "" -> "nan"
    [] field = "abc" -> "text"
    [] dtype = "object" -> "digits"
    [] dtype = "float64" -> "float"
    [] OTHER -> "int"

ReadCsv(f) == [n \in 1..Len(f.fields) |-> ReadCell(f.fields[n], ColumnDtype(f.fields))]

\* load_partial_results on the file f: None, EmptyDataError, or the frame.
ReadCsvOutcome(f) ==
  CASE f.kind = "absent" -> "none"
    [] f.kind = "blank" -> "raise"
    [] OTHER -> "rows"

CsvAbsent == [kind |-> "absent", fields |-> <<>>]
CsvInputs ==
  {[pc |-> "csv_new", first |-> a, second |-> b, file |-> CsvAbsent, ret |-> <<>>] :
     a \in RowSeqs, b \in RowSeqs}

\* save_partial_results(job_id, first)
PSaveFirst ==
  /\ probe.pc = "csv_new"
  /\ probe' = [probe EXCEPT !.pc = "saved_first", !.file = ToCsv(probe.first)]
  /\ UNCHANGED <<perPage, calls, ops, th, jobFile, resFile, allSug, wrappers, created, started,
                 shown, stopDone, log, reports>>

\* save_partial_results(job_id, second), after the first save
PSaveSecond ==
  /\ probe.pc = "saved_first"
  /\ probe' = [probe EXCEPT !.pc = "saved_second", !.file = ToCsv(probe.second)]
  /\ UNCHANGED <<perPage, calls, ops, th, jobFile, resFile, allSug, wrappers, created, started,
                 shown, stopDone, log, reports>>

\* load_partial_results(job_id), after the first or after the second save
PLoadResults ==
  /\ probe.pc \in {"saved_first", "saved_second"}
  /\ LET o == ReadCsvOutcome(probe.file)
         n == IF probe.pc = "saved_first" THEN "first" ELSE "second"
     IN probe' =
          CASE o = "none" -> [probe EXCEPT !.pc = "none_" \o n]
            [] o = "raise" -> [probe EXCEPT !.pc = "raised_" \o n]
            [] OTHER -> [probe EXCEPT !.pc = "loaded_" \o n, !.ret = ReadCsv(probe.file)]
  /\ UNCHANGED <<perPage, calls, ops, th, jobFile, resFile, allSug, wrappers, created, started,
                 shown, stopDone, log, reports>>

-----------------------------------------------------------------------------
(* list_jobs of a caller that creates and deletes jobs, while workers of the   *)
(* jobs write their records (update_job). probe holds the jobs_dir: for each   *)
(* id the job file (absent, a record, or opened for writing and still empty)   *)
(* and the created_at of its record.                                           *)

LNoFile == [kind |-> "absent", created_at |-> 0]
LIdle == [pc |-> "idle", files |-> [j \in AllJobs |-> LNoFile], clock |-> 0,
          names |-> <<>>, jobs |-> <<>>]

\* The entry of list_jobs for the record in the file of j.
LRecord(j) == [job_id |-> j, created_at |-> probe.files[j].created_at]

\* The orders os.listdir may give the names of the files there are.
ListDirs ==
  LET there == {j \in AllJobs : probe.files[j].kind # "absent"}
  IN {q \in UNION {[1..n -> there] : n \in 0..Cardinality(AllJobs)} :
        /\ Len(q) = Cardinality(there)
        /\ \A a, b \in 1..Len(q) : a # b => q[a] # q[b]}

\* jobs.sort(key=created_at, reverse=True): a stable sort, records with equal
\* keys keep their order.
RECURSIVE InsertDesc(_, _)
InsertDesc(x, q) ==
  IF q = <<>> THEN <<x>>
  ELSE IF Head(q).created_at >= x.created_at THEN <<Head(q)>> \o InsertDesc(x, Tail(q))
  ELSE <<x>> \o q
RECURSIVE SortDesc(_)
SortDesc(q) ==
  IF q = <<>> THEN <<>>
  ELSE InsertDesc(q[Len(q)], SortDesc(SubSeq(q, 1, Len(q) - 1)))

\* jobs.sort(...) as list_jobs calls it.
SortJobs(q) == SortDesc(q)

\* create_job(j, ...) stamps created_at with the clock, which does not go back
\* between two calls and may not have moved.
LCreate(j) ==
  /\ probe.pc = "idle"
  /\ probe.files[j].kind = "absent"
  /\ \E t \in probe.clock..MaxClock :
       probe' = [probe EXCEPT !.files[j] = [kind |-> "json", created_at |-> t],
                              !.clock = t]
  /\ UNCHANGED <<perPage, calls, ops, th, jobFile, resFile, allSug, wrappers, created, started,
                 shown, stopDone, log, reports>>

\* delete_job(j)
LDelete(j) ==
  /\ probe.pc = "idle"
  /\ probe.files[j].kind # "absent"
  /\ probe' = [probe EXCEPT !.files[j] = LNoFile]
  /\ UNCHANGED <<perPage, calls, ops, th, jobFile, resFile, allSug, wrappers, created, started,
                 shown, stopDone, log, reports>>

\* _save_job of a worker of j: open(job_file, 'w')
LWorkerOpen(j) ==
  /\ probe.files[j].kind = "json"
  /\ probe' = [probe EXCEPT !.files[j].kind = "empty"]
  /\ UNCHANGED <<perPage, calls, ops, th, jobFile, resFile, allSug, wrappers, created, started,
                 shown, stopDone, log, reports>>

\* _save_job of a worker of j: json.dump and close; created_at is the one read.
LWorkerWrite(j) ==
  /\ probe.files[j].kind = "empty"
  /\ probe' = [probe EXCEPT !.files[j].kind = "json"]
  /\ UNCHANGED <<perPage, calls, ops, th, jobFile, resFile, allSug, wrappers, created, started,
                 shown, stopDone, log, reports>>

\* list_jobs: os.listdir(self.jobs_dir), the names that end with .json
LListDir ==
  /\ probe.pc = "idle"
  /\ \E q \in ListDirs :
       probe' = [probe EXCEPT !.pc = "listing", !.names = q, !.jobs = <<>>]
  /\ UNCHANGED <<perPage, calls, ops, th, jobFile, resFile, allSug, wrappers, created, started,
                 shown, stopDone, log, reports>>

\* list_jobs: get_job(job_id) for the next name, appended when it is a record
LListGet ==
  /\ probe.pc = "listing"
  /\ probe.names # <<>>
  /\ LET j == Head(probe.names)
         k == probe.files[j].kind
     IN probe' =
          CASE k = "absent" -> [probe EXCEPT !.names = Tail(@)]
            [] k = "empty" -> [probe EXCEPT !.pc = "list_raised", !.names = <<>>,
                                            !.jobs = <<>>]
            [] OTHER -> [probe EXCEPT !.names = Tail(@),
                                      !.jobs = Append(@, LRecord(j))]
  /\ UNCHANGED <<perPage, calls, ops, th, jobFile, resFile, allSug, wrappers, created, started,
                 shown, stopDone, log, reports>>

\* list_jobs: the sort and the return
LListSort ==
  /\ probe.pc = "listing"
  /\ probe.names = <<>>
  /\ probe' = [probe EXCEPT !.pc = "listed", !.jobs = SortJobs(@)]
  /\ UNCHANGED <<perPage, calls, ops, th, jobFile, resFile, allSug, wrappers, created, started,
                 shown, stopDone, log, reports>>

\* The caller has the list, or the exception.
LReturn ==
  /\ probe.pc \in {"listed", "list_raised"}
  /\ probe' = [probe EXCEPT !.pc = "idle", !.jobs = <<>>]
  /\ UNCHANGED <<perPage, calls, ops, th, jobFile, resFile, allSug, wrappers, created, started,
                 shown, stopDone, log, reports>>

-----------------------------------------------------------------------------
(* The specification: one job, A *)

\* A JobManager on an empty jobs_dir, no call made, no thread started.
Fresh ==
  /\ calls = 0
  /\ ops = {}
  /\ th = [t \in Threads |-> IdleThread]
  /\ jobFile = [j \in AllJobs |-> Absent]
  /\ resFile = [j \in AllJobs |-> ResAbsent]
  /\ allSug = [w \in Workers |-> NoRows]
  /\ wrappers = [a \in Workers |-> <<>>]
  /\ created = {}
  /\ started = {}
  /\ shown = [j \in AllJobs |-> NoRec]
  /\ stopDone = [j \in AllJobs |-> FALSE]
  /\ log = [w \in Workers |-> <<>>]
  /\ reports = [w \in Workers |-> <<>>]

Init ==
  /\ Fresh
  /\ perPage \in 0..MaxRows
  /\ probe = NoProbe

Jobs == {"A"}

Next ==
  \/ \E j \in Jobs : CreateJob(j)
  \/ \E j \in Jobs : StartJob(j)
  \/ \E j \in Jobs : GetJob(j)
  \/ \E j \in Jobs : PauseJob(j)
  \/ \E j \in Jobs : ResumeJob(j)
  \/ \E j \in Jobs : StopJob(j)
  \/ \E j \in Jobs : DeleteJob(j)
  \/ DeleteRes
  \/ SpawnFresh
  \/ CtlReturn
  \/ \E t \in Threads : UjGet(t)
  \/ \E t \in Threads : SjOpen(t)
  \/ \E t \in Threads : SjWrite(t)
  \/ \E w \in Workers : RsOpen(w)
  \/ \E w \in Workers : RsWrite(w)
  \/ \E w \in Workers : WStart(w)
  \/ \E w \in Workers : WLoad(w)
  \/ \E w \in Workers : WCheck(w)
  \/ \E w \in Workers : WPoll(w)
  \/ \E w \in Workers : WAnalyze(w)
  \/ \E w \in Workers : WAnalyzeFails(w)
  \/ \E w \in Workers : WFinal(w)

Spec == Init /\ [][Next]_vars

-----------------------------------------------------------------------------
(* The specification of the caller alone on its jobs_dir *)

InitStore ==
  /\ Fresh
  /\ perPage = 0
  /\ probe \in ProbeInputs

NextStore ==
  \/ PCreateJob
  \/ PGetJob

SpecStore == InitStore /\ [][NextStore]_vars

-----------------------------------------------------------------------------
(* The specification of the caller alone on its results file *)

InitCsv ==
  /\ Fresh
  /\ perPage = 0
  /\ probe \in CsvInputs

NextCsv ==
  \/ PSaveFirst
  \/ PSaveSecond
  \/ PLoadResults

SpecCsv == InitCsv /\ [][NextCsv]_vars

-----------------------------------------------------------------------------
(* The specification of list_jobs on a jobs_dir with created, deleted and      *)
(* running jobs *)

InitList ==
  /\ Fresh
  /\ perPage = 0
  /\ probe = LIdle

NextList ==
  \/ \E j \in AllJobs : LCreate(j)
  \/ \E j \in AllJobs : LDelete(j)
  \/ \E j \in AllJobs : LWorkerOpen(j)
  \/ \E j \in AllJobs : LWorkerWrite(j)
  \/ LListDir
  \/ LListGet
  \/ LListSort
  \/ LReturn

SpecList == InitList /\ [][NextList]_vars

-----------------------------------------------------------------------------
(* The specification of a caller that, next to its work on job A, calls       *)
(* pause_job, resume_job, stop_job, update_job and start_background_job with   *)
(* an id it has never passed to create_job.                                    *)

Unknown == "B"

\* update_job(job_id, updates) called by the caller itself
UpdateJobCall(j, u) ==
  /\ CtlIdle
  /\ ops' = ops \cup {"update"}
  /\ th' = [th EXCEPT ![Controller] =
              [Call("update", j) EXCEPT !.upd = u, !.pc = "uj_get", !.cont = "ret"]]
  /\ UNCHANGED <<probe, perPage, calls, jobFile, resFile, allSug, wrappers, created, started,
                 shown, stopDone, log, reports>>

\* start_background_job(job_id, analyzer, df) for an id that was not created
StartUnknownJob(j) ==
  /\ CtlIdle
  /\ j \notin created
  /\ j \notin started
  /\ FreeWorkers # {}
  /\ started' = started \cup {j}
  /\ th' = [th EXCEPT ![Controller] = [Call("start", j) EXCEPT !.pc = "spawn"]]
  /\ UNCHANGED <<probe, perPage, calls, ops, jobFile, resFile, allSug, wrappers, created, shown,
                 stopDone, log, reports>>

NextUnknown ==
  \/ Next
  \/ PauseJob(Unknown)
  \/ ResumeJob(Unknown)
  \/ StopJob(Unknown)
  \/ StartUnknownJob(Unknown)
  \/ \E s \in {RUNNING, PAUSED} : \E cp \in {-1, 1} : UpdateJobCall(Unknown, Upd(s, cp, "keep"))

SpecUnknown == Init /\ [][NextUnknown]_vars

-----------------------------------------------------------------------------
(* The specification of the caller alone on its jobs_dir, with update_job *)

NextUpdate ==
  \/ PCreateJob
  \/ PUpdateJob
  \/ PGetJob

SpecUpdate == InitStore /\ [][NextUpdate]_vars

-----------------------------------------------------------------------------
(* The specification of a JobManager started on a jobs_dir that an earlier    *)
(* process left with job A paused: the record shows PAUSED with current_page  *)
(* k, the results file holds the rows of the pages 0..k-1 (there is no file    *)
(* when they gave no rows), and no thread of this process works on the job.   *)

Checkpoints == 1..(NumPages - 1)

PausedAt(k) ==
  [NewJob("A", NumPages, "cfg") EXCEPT !.status = PAUSED, !.current_page = k]

InitResume ==
  /\ calls = 0
  /\ ops = {}
  /\ probe = NoProbe
  /\ perPage \in 0..MaxRows
  /\ th = [t \in Threads |-> IdleThread]
  /\ \E k \in Checkpoints :
       /\ jobFile = [j \in AllJobs |-> IF j = "A" THEN Json(PausedAt(k)) ELSE Absent]
       /\ resFile = [j \in AllJobs |->
                       IF j = "A" /\ RowsOfPages(0, k) # NoRows
                       THEN Csv(RowsOfPages(0, k)) ELSE ResAbsent]
       /\ shown = [j \in AllJobs |-> IF j = "A" THEN PausedAt(k) ELSE NoRec]
  /\ allSug = [w \in Workers |-> NoRows]
  /\ wrappers = [a \in Workers |-> <<>>]
  /\ created = {"A"}
  /\ started = {"A"}
  /\ stopDone = [j \in AllJobs |-> FALSE]
  /\ log = [w \in Workers |-> <<>>]
  /\ reports = [w \in Workers |-> <<>>]

NextResume ==
  \/ \E j \in Jobs : GetJob(j)
  \/ \E j \in Jobs : PauseJob(j)
  \/ \E j \in Jobs : ResumeJob(j)
  \/ \E j \in Jobs : StopJob(j)
  \/ \E j \in Jobs : DeleteJob(j)
  \/ DeleteRes
  \/ SpawnFresh
  \/ CtlReturn
  \/ \E t \in Threads : UjGet(t)
  \/ \E t \in Threads : SjOpen(t)
  \/ \E t \in Threads : SjWrite(t)
  \/ \E w \in Workers : RsOpen(w)
  \/ \E w \in Workers : RsWrite(w)
  \/ \E w \in Workers : WStart(w)
  \/ \E w \in Workers : WLoad(w)
  \/ \E w \in Workers : WCheck(w)
  \/ \E w \in Workers : WPoll(w)
  \/ \E w \in Workers : WAnalyze(w)
  \/ \E w \in Workers : WAnalyzeFails(w)
  \/ \E w \in Workers : WFinal(w)

SpecResume == InitResume /\ [][NextResume]_vars

-----------------------------------------------------------------------------
(* The specification of a caller that creates and starts the job, never calls *)
(* stop_job or delete_job, and follows every pause_job by a resume_job, with   *)
(* an analysis step that always returns. The threads are scheduled fairly.    *)

\* pause_job by a caller that keeps a call for the resume_job that follows.
PauseBeforeResume(j) ==
  /\ calls + 1 < MaxCalls
  /\ PauseJob(j)

\* One step of the code thread t runs: a call of the caller in progress (thread
\* 0) or run_job (a worker).
ThreadStep(t) ==
  \/ UjGet(t)
  \/ SjOpen(t)
  \/ SjWrite(t)
  \/ t = Controller /\ (SpawnFresh \/ CtlReturn)
  \/ t \in Workers /\ (RsOpen(t) \/ RsWrite(t) \/ WStart(t) \/ WLoad(t) \/ WCheck(t)
                          \/ WPoll(t) \/ WAnalyze(t) \/ WFinal(t))

NextLive ==
  \/ \E j \in Jobs : CreateJob(j)
  \/ \E j \in Jobs : StartJob(j)
  \/ \E j \in Jobs : PauseBeforeResume(j)
  \/ \E j \in Jobs : ResumeJob(j)
  \/ SpawnFresh
  \/ CtlReturn
  \/ \E t \in Threads : UjGet(t)
  \/ \E t \in Threads : SjOpen(t)
  \/ \E t \in Threads : SjWrite(t)
  \/ \E w \in Workers : RsOpen(w)
  \/ \E w \in Workers : RsWrite(w)
  \/ \E w \in Workers : WStart(w)
  \/ \E w \in Workers : WLoad(w)
  \/ \E w \in Workers : WCheck(w)
  \/ \E w \in Workers : WPoll(w)
  \/ \E w \in Workers : WAnalyze(w)
  \/ \E w \in Workers : WFinal(w)

\* Every thread that can take a step takes one; the caller creates and starts
\* the job, and goes on to resume_job as long as it has calls left, so that the
\* last of its calls is a resume_job.
Fairness ==
  /\ \A t \in Threads : WF_vars(ThreadStep(t))
  /\ WF_vars(\E j \in Jobs : CreateJob(j))
  /\ WF_vars(\E j \in Jobs : StartJob(j))
  /\ WF_vars(\E j \in Jobs : ResumeJob(j))

SpecLive == Init /\ [][NextLive]_vars /\ Fairness

-----------------------------------------------------------------------------
(* The specification of a JobManager on a jobs_dir where job A has ended: the *)
(* record shows COMPLETED, FAILED or STOPPED with the current_page k that      *)
(* status was reached at, the results file holds the rows of the pages         *)
(* 0..k-1, and no thread works on the job. The caller may call                 *)
(* start_background_job for it again.                                          *)

EndedAt(st, k) ==
  [NewJob("A", NumPages, "cfg") EXCEPT !.status = st, !.current_page = k,
                                       !.error = IF st = FAILED THEN "err" ELSE "null"]

\* The current_page a job may have ended with.
EndPages(st) == IF st = COMPLETED THEN {NumPages} ELSE 0..(NumPages - 1)

InitEnded ==
  /\ calls = 0
  /\ ops = {}
  /\ probe = NoProbe
  /\ perPage \in 0..MaxRows
  /\ th = [t \in Threads |-> IdleThread]
  /\ \E st \in {COMPLETED, FAILED, STOPPED} : \E k \in EndPages(st) :
       /\ jobFile = [j \in AllJobs |-> IF j = "A" THEN Json(EndedAt(st, k)) ELSE Absent]
       /\ resFile = [j \in AllJobs |->
                       IF j = "A" /\ RowsOfPages(0, k) # NoRows
                       THEN Csv(RowsOfPages(0, k)) ELSE ResAbsent]
       /\ shown = [j \in AllJobs |-> IF j = "A" THEN EndedAt(st, k) ELSE NoRec]
  /\ allSug = [w \in Workers |-> NoRows]
  /\ wrappers = [a \in Workers |-> <<>>]
  /\ created = {"A"}
  /\ started = {"A"}
  /\ stopDone = [j \in AllJobs |-> FALSE]
  /\ log = [w \in Workers |-> <<>>]
  /\ reports = [w \in Workers |-> <<>>]

\* start_background_job(job_id, analyzer, df) for a job that has been started
\* before: the method looks at no status and starts the thread.
StartAgain(j) ==
  /\ calls < MaxCalls
  /\ calls' = calls + 1
  /\ CtlIdle
  /\ j \in started
  /\ FreeWorkers # {}
  /\ ops' = ops \cup {"start"}
  /\ th' = [th EXCEPT ![Controller] = [Call("start", j) EXCEPT !.pc = "spawn"]]
  /\ UNCHANGED <<probe, perPage, jobFile, resFile, allSug, wrappers, created, started,
                 shown, stopDone, log, reports>>

NextEnded ==
  \/ NextResume
  \/ \E j \in Jobs : StartAgain(j)

SpecEnded == InitEnded /\ [][NextEnded]_vars

-----------------------------------------------------------------------------
(* The specification of a caller with two jobs, A and B, that passes one and   *)
(* the same LinkAnalyzer object to every start_background_job, and starts a    *)
(* job only when no worker thread is running.                                  *)

SharedAnalyzer == 1

\* start_background_job(job_id, analyzer, df) with the caller's one analyzer
SpawnShared == \E w \in Workers : Spawn(w, SharedAnalyzer)

\* start_background_job for a created job, once the thread of the job started
\* before has ended
StartNext(j) ==
  /\ \A w \in Workers : ~Live(w)
  /\ StartJob(j)

NextShared ==
  \/ \E j \in AllJobs : CreateJob(j)
  \/ \E j \in AllJobs : StartNext(j)
  \/ \E j \in AllJobs : GetJob(j)
  \/ \E j \in AllJobs : PauseJob(j)
  \/ \E j \in AllJobs : StopJob(j)
  \/ SpawnShared
  \/ CtlReturn
  \/ \E t \in Threads : UjGet(t)
  \/ \E t \in Threads : SjOpen(t)
  \/ \E t \in Threads : SjWrite(t)
  \/ \E w \in Workers : RsOpen(w)
  \/ \E w \in Workers : RsWrite(w)
  \/ \E w \in Workers : WStart(w)
  \/ \E w \in Workers : WLoad(w)
  \/ \E w \in Workers : WCheck(w)
  \/ \E w \in Workers : WPoll(w)
  \/ \E w \in Workers : WAnalyze(w)
  \/ \E w \in Workers : WFinal(w)

SpecShared == Init /\ [][NextShared]_vars

-----------------------------------------------------------------------------
(* WebCrawler.crawl on a site whose pages link to each other, to themselves, to *)
(* places on the same page and to another site, in any way.                    *)

\* A URL: the host, the page on it and the fragment ("" for none).
Url(host, page, frag) == [host |-> host, page |-> page, frag |-> frag]
Domain == "site"
SiteUrls == {Url(Domain, q, f) : q \in 1..SitePages, f \in {"", "top"}}
OtherUrl == Url("other", 1, "")

\* The href of an <a> tag: a path on the host of the page, a fragment on the page
\* itself, or an absolute URL on another host.
Hrefs ==
  {[kind |-> "path", page |-> q] : q \in 1..SitePages}
    \cup {[kind |-> "frag", page |-> 0], [kind |-> "abs", page |-> 0]}
LinkLists == UNION {[1..n -> Hrefs] : n \in 0..MaxLinks}

\* urljoin(url, href)
UrlJoin(url, href) ==
  CASE href.kind = "path" -> Url(url.host, href.page, "")
    [] href.kind = "frag" -> Url(url.host, url.page, "top")
    [] OTHER -> OtherUrl

\* is_valid_url: the netloc of the URL is the domain of base_url
IsValidUrl(url) == url.host = Domain

\* extract_page_data: the links of the page, each joined with the URL of the
\* page, that are valid and not in visited_urls, in the order of the page.
RECURSIVE PageLinks(_, _, _)
PageLinks(url, hrefs, visited) ==
  IF hrefs = <<>> THEN <<>>
  ELSE LET full == UrlJoin(url, Head(hrefs))
           rest == PageLinks(url, Tail(hrefs), visited)
       IN IF IsValidUrl(full) /\ full \notin visited THEN <<full>> \o rest ELSE rest

\* A crawl loop that would test the limit after the page is taken.
CrawlGoesOnLate(p) ==
  p.urls_to_visit # <<>> /\ Cardinality(p.visited_urls) <= p.max_pages

\* while urls_to_visit and len(self.visited_urls) < self.max_pages
CrawlGoesOn(p) ==
  p.urls_to_visit # <<>> /\ Cardinality(p.visited_urls) < p.max_pages

\* A WebCrawler(base_url, max_pages) before crawl is called, and the start_url
\* the caller will pass.
NewCrawler(m, start) ==
  [pc |-> "built", max_pages |-> m, start_url |-> start, urls_to_visit |-> <<>>,
   visited_urls |-> {}, crawled |-> 0, fetched |-> <<>>, found |-> <<>>]

\* crawl(start_url): urls_to_visit = [start_url], visited_urls = set()
CrawlCall ==
  /\ probe.pc \in {"built", "crawled"}
  /\ probe' = [probe EXCEPT !.pc = "crawling", !.urls_to_visit = <<probe.start_url>>,
                            !.visited_urls = {}, !.crawled = 0, !.fetched = <<>>,
                            !.found = <<>>]
  /\ UNCHANGED <<perPage, calls, ops, th, jobFile, resFile, allSug, wrappers, created, started,
                 shown, stopDone, log, reports>>

\* One turn of the loop on a URL that is in visited_urls: continue
CrawlSkip ==
  /\ probe.pc = "crawling"
  /\ CrawlGoesOn(probe)
  /\ Head(probe.urls_to_visit) \in probe.visited_urls
  /\ probe' = [probe EXCEPT !.urls_to_visit = Tail(@)]
  /\ UNCHANGED <<perPage, calls, ops, th, jobFile, resFile, allSug, wrappers, created, started,
                 shown, stopDone, log, reports>>

\* One turn of the loop on a new URL: it is added to visited_urls and fetched by
\* extract_page_data, which returns None (the request or the parsing failed) or
\* the page with its links; the links are appended to urls_to_visit.
CrawlPage ==
  /\ probe.pc = "crawling"
  /\ CrawlGoesOn(probe)
  /\ LET url == Head(probe.urls_to_visit)
         visited == probe.visited_urls \cup {url}
     IN /\ url \notin probe.visited_urls
        /\ \E ok \in BOOLEAN : \E hrefs \in LinkLists :
             /\ ~ok => hrefs = <<>>
             /\ probe' = [probe EXCEPT
                  !.visited_urls = visited,
                  !.fetched = Append(@, url),
                  !.found = [n \in 1..Len(hrefs) |-> UrlJoin(url, hrefs[n])],
                  !.crawled = IF ok THEN @ + 1 ELSE @,
                  !.urls_to_visit = Tail(@) \o PageLinks(url, hrefs, visited)]
  /\ UNCHANGED <<perPage, calls, ops, th, jobFile, resFile, allSug, wrappers, created, started,
                 shown, stopDone, log, reports>>

\* The loop ends and crawl returns the frame of the crawled pages.
CrawlReturn ==
  /\ probe.pc = "crawling"
  /\ ~CrawlGoesOn(probe)
  /\ probe' = [probe EXCEPT !.pc = "crawled"]
  /\ UNCHANGED <<perPage, calls, ops, th, jobFile, resFile, allSug, wrappers, created, started,
                 shown, stopDone, log, reports>>

InitCrawl ==
  /\ Fresh
  /\ perPage = 0
  /\ \E m \in 0..MaxMaxPages : \E start \in SiteUrls \cup {OtherUrl} :
       probe = NewCrawler(m, start)

NextCrawl ==
  \/ CrawlCall
  \/ CrawlSkip
  \/ CrawlPage
  \/ CrawlReturn

SpecCrawl == InitCrawl /\ [][NextCrawl]_vars

-----------------------------------------------------------------------------
(* Properties *)

Terminal == {COMPLETED, FAILED, STOPPED}
Ctl == th[Controller]
Quiescent == \A t \in Threads : th[t].pc \in {"idle", "ret", "raised", "done", "dead"}
Unparseable(f) == f.kind \in {"empty", "garbage"}

\* C1: a get_job of the caller that runs while other threads write the record
\* never raises, and returns not-found or a complete record of that job.
C1_GetJobNeverSeesPartialWrite ==
  Ctl.op = "get" =>
    /\ Ctl.pc # "raised"
    /\ (Ctl.pc = "ret" => Ctl.seen = "none" \/ Ctl.tmp.job_id = Ctl.job)

\* C2: get_job on a job file that is empty or not parseable returns None and
\* does not raise.
C2_UnparseableFileReadsAsAbsent ==
  [][\A j \in AllJobs :
       (Ctl.pc = "idle" /\ Ctl'.op = "get" /\ Ctl'.job = j /\ Ctl'.pc # "idle"
          /\ Unparseable(jobFile[j]))
       => (Ctl'.pc = "ret" /\ Ctl'.seen = "none")]_vars

\* C3: with update_job calls of several threads running along get_job calls, no
\* update_job call raises (in the caller, or in a worker, whose thread it would
\* end), and once all threads have finished the job file holds a complete record
\* with the job's id (unless delete_job removed it).
C3_ConcurrentUpdatesLeaveCompleteRecord ==
  /\ Ctl.pc = "raised" => Ctl.upd = NoUpd
  /\ \A w \in Workers : th[w].pc # "dead"
  /\ Quiescent =>
       \A j \in created :
         \/ jobFile[j].kind = "absent"
         \/ jobFile[j].kind = "json" /\ jobFile[j].rec.job_id = j

\* C4: once the record shows COMPLETED, FAILED or STOPPED, no later write shows
\* another status (the record may still be deleted).
C4_TerminalStatusIsFinal ==
  [][\A j \in AllJobs :
       shown[j].status \in Terminal =>
         shown'[j].status = shown[j].status \/ shown'[j] = NoRec]_vars

\* C5: every change of the status of a record, from one complete record written
\* to the job file to the next one, follows an edge of the state machine.
Edges == {<<QUEUED, RUNNING>>, <<RUNNING, PAUSED>>,
          <<RUNNING, COMPLETED>>, <<RUNNING, FAILED>>, <<RUNNING, STOPPED>>,
          <<PAUSED, RUNNING>>, <<PAUSED, STOPPED>>}
C5_StatusFollowsStateMachine ==
  [][\A j \in AllJobs :
       (shown[j] # NoRec /\ shown'[j] # NoRec /\ shown'[j].status # shown[j].status)
       => <<shown[j].status, shown'[j].status>> \in Edges]_vars

\* C6: at most one worker thread is live for a job id at any time.
LiveWorkers(j) == {w \in Workers : Live(w) /\ th[w].job = j}
C6_AtMostOneLiveWorker ==
  \A j \in AllJobs : Cardinality(LiveWorkers(j)) <= 1

\* C7: once the record shows PAUSED it shows PAUSED until the caller calls
\* resume_job, stop_job or delete_job.
C7_PauseIsNeverLost ==
  [][\A j \in AllJobs :
       (shown[j].status = PAUSED /\ shown'[j].status # PAUSED)
       => \/ Ctl.job = j /\ Ctl.op \in {"resume", "stop", "delete"}
          \/ Ctl'.job = j /\ Ctl'.op \in {"resume", "stop", "delete"}]_vars

\* C8: after stop_job has written STOPPED, no worker of the job hands a further
\* page to the analysis step, and a worker that exits leaves the record showing
\* STOPPED.
Exited(w) == th[w].pc \in {"done", "dead"}
C8_StopEndsTheWorker ==
  [][\A j \in AllJobs : stopDone[j] =>
       \A w \in Workers : th[w].job = j =>
         /\ log'[w] = log[w]
         /\ (~Exited(w) /\ Exited(w)' /\ shown'[j] # NoRec
               => shown'[j].status = STOPPED)]_vars

\* C9: pause_job goes on to write only when the status it reads is RUNNING, and
\* what it writes is the record with status PAUSED; when it reads QUEUED, PAUSED,
\* COMPLETED, FAILED or STOPPED it returns at once, changes no file and does not
\* raise.
C9_PauseOnlyFromRunning ==
  [][\A j \in AllJobs :
       (Ctl'.op = "pause" /\ Ctl'.job = j /\ Ctl' # Ctl) =>
         /\ (Ctl.pc = "idle" /\ jobFile[j].kind = "json") =>
              IF jobFile[j].rec.status = RUNNING
              THEN Ctl'.pc = "uj_get" /\ Ctl'.upd = Upd(PAUSED, -1, "keep")
              ELSE Ctl'.pc = "ret" /\ Ctl'.seen = jobFile[j].rec.status
         /\ (Ctl.pc = "idle" \/ Ctl'.pc = "ret") /\ Ctl'.seen # RUNNING
              => jobFile' = jobFile /\ resFile' = resFile
         /\ jobFile'[j] # jobFile[j] =>
              /\ Ctl.seen = RUNNING
              /\ jobFile'[j].kind = "json" =>
                   jobFile'[j].rec = [Ctl.tmp EXCEPT !.status = PAUSED]]_vars

\* pause_job has read RUNNING and the record shows PAUSED when it returns.
C9_Witness ==
  /\ Ctl.op = "pause" /\ Ctl.pc = "ret" /\ Ctl.seen = RUNNING
  /\ jobFile["A"].kind = "json" /\ jobFile["A"].rec.status = PAUSED

\* C10: resume_job goes on to update_job(RUNNING) and to start a worker only when
\* the status it reads is PAUSED, and returns at once with no file changed and
\* no thread started otherwise; a worker takes the current_page of the record it
\* reads as its start page, and the first page it hands to the analysis step is
\* the page with that index.
C10_ResumeOnlyFromPaused ==
  [][/\ \A j \in AllJobs :
          (Ctl'.op = "resume" /\ Ctl'.job = j /\ Ctl' # Ctl) =>
            /\ (Ctl.pc = "idle" /\ jobFile[j].kind = "json") =>
                 IF jobFile[j].rec.status = PAUSED
                 THEN /\ Ctl'.pc = "uj_get" /\ Ctl'.cont = "spawn"
                      /\ Ctl'.upd = Upd(RUNNING, -1, "keep")
                 ELSE Ctl'.pc = "ret" /\ Ctl'.seen = jobFile[j].rec.status
            /\ Ctl'.seen # PAUSED =>
                 /\ jobFile' = jobFile
                 /\ \A w \in Workers : th'[w].pc = th[w].pc
            /\ (\E w \in Workers : th[w].pc = "idle" /\ th'[w].pc # "idle") =>
                 Ctl.seen = PAUSED /\ Ctl.pc = "spawn"
     /\ \A w \in Workers :
          /\ (th[w].pc = "w_start" /\ th'[w].pc = "uj_get" /\ ~th'[w].handler)
               => th'[w].start = jobFile[th[w].job].rec.current_page
          /\ log'[w] # <<>> => log'[w][1] = Pages[th'[w].start + 1]]_vars

\* A worker started by resume_job has read current_page 1 and has handed its
\* first page to the analysis step.
C10_Witness ==
  \E w \in Workers :
    /\ w > 1 /\ th[w].op = "run" /\ th[w].start > 0 /\ log[w] # <<>>

\* C11: stop_job goes on to write only when the status it reads is RUNNING or
\* PAUSED, and what it writes is the record with status STOPPED; when it reads
\* QUEUED, COMPLETED, FAILED or STOPPED it returns at once, changes no file and
\* does not raise.
C11_StopOnlyFromRunningOrPaused ==
  [][\A j \in AllJobs :
       (Ctl'.op = "stop" /\ Ctl'.job = j /\ Ctl' # Ctl) =>
         /\ (Ctl.pc = "idle" /\ jobFile[j].kind = "json") =>
              IF jobFile[j].rec.status \in {RUNNING, PAUSED}
              THEN Ctl'.pc = "uj_get" /\ Ctl'.upd = Upd(STOPPED, -1, "keep")
              ELSE Ctl'.pc = "ret" /\ Ctl'.seen = jobFile[j].rec.status
         /\ (Ctl.pc = "idle" \/ Ctl'.pc = "ret") /\ Ctl'.seen \notin {RUNNING, PAUSED}
              => jobFile' = jobFile /\ resFile' = resFile
         /\ jobFile'[j] # jobFile[j] =>
              /\ Ctl.seen \in {RUNNING, PAUSED}
              /\ jobFile'[j].kind = "json" =>
                   jobFile'[j].rec = [Ctl.tmp EXCEPT !.status = STOPPED]]_vars

\* stop_job has read PAUSED and the record shows STOPPED when it returns.
C11_Witness ==
  /\ Ctl.op = "stop" /\ Ctl.pc = "ret" /\ Ctl.seen = PAUSED
  /\ jobFile["A"].kind = "json" /\ jobFile["A"].rec.status = STOPPED

\* C12: for every job_id, total_pages and config, create_job returns and the
\* get_job right after it returns the record with status QUEUED, current_page
\* 0, error null and the job_id, total_pages and config that were given.
C12_GetAfterCreateGivesTheRecord ==
  /\ probe.pc \notin {"create_raised", "get_raised", "got_none"}
  /\ probe.pc = "got" =>
       probe.ret = NewJob(probe.job_id, probe.total_pages, probe.config)

\* A worker that has returned from run_job with no exception on its way.
Finished(w) == th[w].op = "run" /\ th[w].pc = "done" /\ ~th[w].handler

\* C13: when the worker started on a QUEUED job has gone through all pages, with
\* no pause_job, resume_job, stop_job or delete_job call and no failure on the
\* way, the record shows COMPLETED with current_page = total_pages and the
\* results file holds the rows of all pages, in page order.
C13_UndisturbedRunCompletes ==
  \A w \in Workers :
    (Finished(w) /\ ops \subseteq {"get"}) =>
      LET f == jobFile[th[w].job] IN
      /\ f.kind = "json"
      /\ f.rec.status = COMPLETED
      /\ f.rec.current_page = f.rec.total_pages
      /\ f.rec.total_pages = NumPages
      /\ resFile[th[w].job].kind \in {"csv", "blank"}
      /\ resFile[th[w].job].rows = RowsOfPages(0, NumPages)

\* The worker has finished an undisturbed run on a site whose pages give rows.
C13_Witness ==
  /\ Finished(1) /\ ops \subseteq {"get"} /\ perPage > 0
  /\ jobFile["A"].kind = "json" /\ jobFile["A"].rec.status = COMPLETED
  /\ Len(resFile["A"].rows) = NumPages * perPage

\* What load_partial_results gives on the results file f: its rows, and no rows
\* when it returns None.
Loaded(f) == IF LoadOutcome(f) = "rows" THEN f.rows ELSE NoRows

\* A worker that has left run_job through its except clause.
Failed(w) == th[w].op = "run" /\ th[w].pc = "done" /\ th[w].handler

\* C14: when the analysis step raises on the page with index j in the run of the
\* only worker of a fresh job (no pause, resume, stop or delete call), the record
\* ends with FAILED and an error string, current_page is j, and
\* load_partial_results gives the rows of the pages 0..j-1 and no others.
C14_FailureKeepsCheckpoint ==
  \A w \in Workers :
    (Failed(w) /\ ops \subseteq {"get"}) =>
      LET f == jobFile[th[w].job]
          j == log[w][Len(log[w])]
      IN /\ f.kind = "json"
         /\ f.rec.status = FAILED
         /\ f.rec.error # "null"
         /\ f.rec.current_page = j
         /\ LoadOutcome(resFile[th[w].job]) # "raise"
         /\ Loaded(resFile[th[w].job]) = RowsOfPages(0, j)

\* The analysis step has raised on a page after the first, on a site whose pages
\* give rows, and the worker has left.
C14_Witness ==
  /\ Failed(1) /\ ops \subseteq {"get"} /\ perPage > 0
  /\ Len(log[1]) > 1
  /\ jobFile["A"].kind = "json" /\ jobFile["A"].rec.status = FAILED
  /\ resFile["A"].kind = "csv"

\* C15: on a job left paused with current_page k and the rows of the pages
\* 0..k-1 in the results file, when the worker started by resume_job has gone
\* through the pages k..NumPages-1 with no other pause, stop or delete call and
\* no failure, and has written COMPLETED, the results file holds the rows saved
\* before the resume followed by the rows of the pages k..NumPages-1.
C15_ResumedRunKeepsEarlierRows ==
  \A w \in Workers :
    (/\ Finished(w) /\ ops \subseteq {"resume", "get"}
     /\ jobFile[th[w].job].kind = "json"
     /\ jobFile[th[w].job].rec.status = COMPLETED)
    => resFile[th[w].job].rows = RowsOfPages(0, NumPages)

\* A step by which worker w leaves run_job through the branch that has found the
\* record STOPPED (the last write of that branch lands), with no failure before.
ExitsStopped(w) ==
  /\ th[w].op = "run" /\ th[w].pc = "sj_write" /\ th[w].cont = "done"
  /\ ~th[w].handler /\ th[w].tmp.status = STOPPED
  /\ th'[w].pc = "done"

\* C16: when the only worker of a job (no resume or delete call) leaves after it
\* has found the record STOPPED, and the record shows current_page <
\* total_pages, the pages it handed to the analysis step are the first pages of
\* df in order, and load_partial_results gives the rows of exactly these pages,
\* in page order.
C16_StoppedJobKeepsProcessedRows ==
  [][\A w \in Workers :
       (/\ ExitsStopped(w) /\ ops' \subseteq {"stop", "pause", "get"}
        /\ jobFile'[th[w].job].kind = "json"
        /\ jobFile'[th[w].job].rec.status = STOPPED
        /\ jobFile'[th[w].job].rec.current_page < jobFile'[th[w].job].rec.total_pages)
       => /\ log'[w] = SubSeq(Pages, 1, Len(log'[w]))
          /\ LoadOutcome(resFile'[th[w].job]) # "raise"
          /\ Loaded(resFile'[th[w].job]) = RowsFor(log'[w])]_vars

\* The worker has left a stopped job after the first page, which gave rows, and
\* before the last one.
C16_Witness ==
  /\ Finished(1) /\ "stop" \in ops /\ ops \subseteq {"stop", "pause", "get"}
  /\ jobFile["A"].kind = "json" /\ jobFile["A"].rec.status = STOPPED
  /\ jobFile["A"].rec.current_page < NumPages
  /\ log[1] # <<>> /\ Len(log[1]) < NumPages /\ resFile["A"].kind = "csv"

\* rows begins with the rows of pre, in the same order.
StartsWith(rows, pre) ==
  Len(rows) >= Len(pre) /\ SubSeq(rows, 1, Len(pre)) = pre

\* C17: in a run that no pause, resume, stop or delete call disturbs, whenever
\* the record shows current_page = N, the results file holds the rows of every
\* page with index below N, in page order.
C17_CheckpointBeforeProgress ==
  \A j \in AllJobs :
    (ops \subseteq {"get"} /\ jobFile[j].kind = "json") =>
      StartsWith(resFile[j].rows, RowsOfPages(0, jobFile[j].rec.current_page))

\* C18: from one complete record written to the job file to the next one, as long
\* as the record shows no terminal status and delete_job is not called, the
\* current_page does not decrease.
C18_CurrentPageNeverDecreases ==
  [][\A j \in AllJobs :
       (/\ shown[j] # NoRec /\ shown'[j] # NoRec /\ "delete" \notin ops'
        /\ shown[j].status \notin Terminal)
       => shown'[j].current_page >= shown[j].current_page]_vars

\* C19: every complete record in a job file has 0 <= current_page <= total_pages
\* (each job is created with total_pages = NumPages and every worker is given a
\* table of NumPages rows).
C19_CurrentPageWithinTotal ==
  \A j \in AllJobs :
    jobFile[j].kind = "json"
    => /\ 0 <= jobFile[j].rec.current_page
       /\ jobFile[j].rec.current_page <= jobFile[j].rec.total_pages

\* update_progress has written the last page while the job is still running, and
\* the worker has reported it.
C19_Witness ==
  /\ jobFile["A"].kind = "json"
  /\ jobFile["A"].rec.status = RUNNING
  /\ jobFile["A"].rec.current_page = jobFile["A"].rec.total_pages
  /\ \E w \in Workers : Len(reports[w]) = NumPages

\* C20: every progress report of a worker resumed from a checkpoint carries the
\* job's original total, NumPages, as its total, and the first components count
\* up from the checkpoint by one.
C20_ResumeReportsOriginalTotal ==
  \A w \in Workers :
    \A n \in 1..Len(reports[w]) :
      /\ reports[w][n][2] = NumPages
      /\ n > 1 => reports[w][n][1] = reports[w][n - 1][1] + 1

\* The record of j shows COMPLETED with current_page = total_pages.
Completed(j) ==
  /\ jobFile[j].kind = "json"
  /\ jobFile[j].rec.status = COMPLETED
  /\ jobFile[j].rec.current_page = jobFile[j].rec.total_pages

\* C21: with an analysis step that always returns, no stop_job or delete_job
\* call, and every pause_job followed by a resume_job, a job that has been
\* started comes to show COMPLETED with current_page = total_pages, and shows it
\* from then on.
C21_StartedJobCompletes ==
  \A j \in Jobs : (j \in started) ~> [](Completed(j))

\* The status check_status reads for worker w in this state ("" when the job
\* file holds no record).
StatusRead(w) == jobFile[th[w].job].rec.status

\* The page worker w is about to process: the one after those it has analyzed,
\* counted from its start page.
NextPage(w) == Pages[th[w].start + Len(log[w]) + 1]

\* C22: a worker whose status check, at the head of the loop or in the pause
\* loop, reads PAUSED waits in the pause loop and hands no page to the analysis
\* step; a worker in the pause loop hands over a page only at a poll that reads
\* a status other than PAUSED; a poll that reads RUNNING goes on with the page
\* the worker was about to process; a poll that reads STOPPED leaves the loop
\* with no page handed over, and no page is handed over after the loop is left.
C22_PausedWorkerWaitsAtItsPage ==
  [][\A w \in Workers :
       /\ (th[w].pc \in {"w_check", "w_paused"} /\ StatusRead(w) = PAUSED)
            => /\ th'[w].pc \in {th[w].pc, "w_paused"}
               /\ log'[w] = log[w]
       /\ (th[w].pc = "w_paused" /\ log'[w] # log[w])
            => /\ StatusRead(w) \notin {PAUSED, STOPPED}
               /\ log'[w] = Append(log[w], NextPage(w))
       /\ (th[w].pc = "w_paused" /\ StatusRead(w) = RUNNING /\ th'[w] # th[w])
            => /\ th'[w].pc = "w_analyze"
               /\ log'[w] = Append(log[w], NextPage(w))
               /\ th'[w].dfp[th'[w].i] = NextPage(w)
       /\ (th[w].pc = "w_paused" /\ StatusRead(w) = STOPPED /\ th'[w] # th[w])
            => th'[w].pc = "w_final" /\ log'[w] = log[w]
       /\ th[w].pc = "w_final" => log'[w] = log[w]]_vars

\* The first worker waits in the pause loop before the second page, and the
\* record shows RUNNING again: its next poll goes on.
C22_Witness ==
  /\ th[1].pc = "w_paused" /\ log[1] = <<Pages[1]>>
  /\ jobFile["A"].kind = "json" /\ jobFile["A"].rec.status = RUNNING
  /\ "pause" \in ops

\* No thread started for job j is still running.
NoLiveWorker(j) == \A w \in Workers : th[w].job = j => ~Live(w)

\* C23: a delete_job(j) called while no worker of j is live, whatever the job
\* file and the results file hold (nothing, too), does not raise; its first step
\* leaves no job file, its second step leaves no results file, and when it
\* returns get_job(j) and load_partial_results(j) find nothing and give None.
\* Where there was no file, no file is changed.
C23_DeleteRemovesRecordAndResults ==
  [][\A j \in AllJobs :
       /\ (Ctl.pc = "idle" /\ Ctl'.op = "delete" /\ Ctl'.job = j /\ NoLiveWorker(j))
            => /\ Ctl'.pc = "del_res"
               /\ jobFile'[j] = Absent
               /\ NoLiveWorker(j)'
               /\ jobFile[j] = Absent => jobFile' = jobFile
               /\ resFile' = resFile
       /\ (/\ Ctl.op = "delete" /\ Ctl.job = j /\ Ctl.pc = "del_res"
           /\ NoLiveWorker(j) /\ jobFile[j] = Absent)
            => /\ Ctl'.pc \in {"del_res", "ret"}
               /\ NoLiveWorker(j)'
               /\ jobFile' = jobFile
               /\ resFile[j] = ResAbsent => resFile' = resFile
               /\ Ctl'.pc = "ret"
                    => /\ GetJobOutcome(jobFile'[j]) = "none"
                       /\ LoadOutcome(resFile'[j]) = "none"]_vars

\* delete_job has returned on a job whose worker had completed it and saved
\* rows: no file of the job is left.
C23_Witness ==
  /\ Ctl.op = "delete" /\ Ctl.pc = "ret" /\ Ctl.job = "A"
  /\ Finished(1) /\ allSug[1] # NoRows /\ th[2].pc = "idle"
  /\ ops = {"delete"}
  /\ jobFile["A"] = Absent /\ resFile["A"] = ResAbsent

\* C24: for every frame, the frame of no rows too, load_partial_results after
\* save_partial_results does not raise, does not return None, and gives rows
\* equal to the rows saved; after a second save it gives the rows of the second
\* frame and none of the first.
C24_SaveLoadRoundTrip ==
  /\ probe.pc \notin {"raised_first", "raised_second", "none_first", "none_second"}
  /\ probe.pc = "loaded_first" => probe.ret = probe.first
  /\ probe.pc = "loaded_second" => probe.ret = probe.second

\* C25: list_jobs does not raise, and the list it returns holds the record of
\* every job that has a job file, each once and no other, with created_at not
\* increasing along the list.
C25_ListJobsGivesAllRecordsNewestFirst ==
  /\ probe.pc # "list_raised"
  /\ probe.pc = "listed" =>
       LET q == probe.jobs
           there == {j \in AllJobs : probe.files[j].kind # "absent"}
       IN /\ {q[n].job_id : n \in 1..Len(q)} = there
          /\ Len(q) = Cardinality(there)
          /\ \A n \in 1..Len(q) : q[n] = LRecord(q[n].job_id)
          /\ \A a, b \in 1..Len(q) : a < b => q[a].created_at >= q[b].created_at

\* C26: a step of pause_job, resume_job, stop_job, update_job or of a thread
\* started by start_background_job, for an id that has no record, changes no job
\* file and no results file, hands no page to the analysis step, and raises
\* nothing; there is never a job file or a results file for that id.
C26_UnknownJobIsLeftAlone ==
  [][/\ \A t \in Threads :
          (th'[t] # th[t] /\ th'[t].job = Unknown /\ th'[t].op # "none")
          => /\ jobFile' = jobFile
             /\ resFile' = resFile
             /\ log' = log
             /\ reports' = reports
             /\ th'[t].pc \notin {"raised", "dead"}
             /\ ~th'[t].handler
     /\ jobFile'[Unknown] = Absent
     /\ resFile'[Unknown] = ResAbsent]_vars

\* A thread started for the unknown id has returned, with no page handed over,
\* and a stop_job for that id has returned after an update_job call, while job A
\* has its record.
C26_Witness ==
  /\ \E w \in Workers : th[w].job = Unknown /\ Finished(w) /\ log[w] = <<>>
  /\ Ctl.op = "stop" /\ Ctl.job = Unknown /\ Ctl.pc = "ret"
  /\ "update" \in ops
  /\ jobFile["A"].kind = "json"

\* C27: in the run of a worker that starts at page 0, with no stop_job and no
\* delete_job call, the progress reports are (1, n), (2, n), ... in this order
\* with n = NumPages, one for each page; a page is reported after it has been
\* handed to the analysis step and before the next page is; a worker that has
\* returned with no failure has made n reports.
C27_FreshRunReportsEachPageOnce ==
  \A w \in Workers :
    (ops \cap {"stop", "delete"} = {} /\ th[w].op = "run" /\ th[w].start = 0) =>
      /\ \A k \in 1..Len(reports[w]) : reports[w][k] = <<k, NumPages>>
      /\ Len(reports[w]) <= Len(log[w])
      /\ Len(log[w]) <= Len(reports[w]) + 1
      /\ Finished(w) => Len(reports[w]) = NumPages

\* The worker of a fresh run has returned after it has reported every page.
C27_Witness ==
  /\ Finished(1) /\ th[1].start = 0 /\ ops \cap {"stop", "delete"} = {}
  /\ Len(reports[1]) = NumPages /\ reports[1][NumPages] = <<NumPages, NumPages>>

Catalog(r) == {r.dfp[n] : n \in 1..Len(r.dfp)}

\* C29: whenever a worker hands a page to the analysis step, in a fresh run or
\* after a resume from a checkpoint, the catalog it hands over with the page
\* holds every page of the job's table.
C29_CatalogIsTheWholeTable ==
  \A w \in Workers :
    th[w].pc = "w_analyze" => Catalog(th[w]) = {Pages[n] : n \in 1..NumPages}

\* The number of times page p has been handed to the analysis step, by any
\* worker.
TimesAnalyzed(p) ==
  Cardinality({x \in Workers \X (1..NumPages) :
                 x[2] <= Len(log[x[1]]) /\ log[x[1]][x[2]] = p})

\* C30: when a job that the caller has only paused and resumed (no stop_job, no
\* delete_job, no failing analysis) shows COMPLETED and no worker is left, every
\* page of the table has been handed to the analysis step exactly once.
C30_EachPageAnalyzedOnce ==
  (/\ ops \subseteq {"pause", "resume", "get"}
   /\ Completed("A")
   /\ \A w \in Workers : ~Live(w) /\ ~th[w].handler)
  => \A n \in 1..NumPages : TimesAnalyzed(Pages[n]) = 1

\* C31: on a job whose record shows COMPLETED, FAILED or STOPPED, a
\* start_background_job call and the thread it starts leave the status and the
\* current_page of the record as they are (unless delete_job removes it), and,
\* as long as the caller has not called resume_job, no thread hands a page to
\* the analysis step.
C31_StartOnEndedJobDoesNothing ==
  [][\A j \in Jobs :
       /\ (shown[j].status \in Terminal /\ "delete" \notin ops')
            => /\ shown'[j].status = shown[j].status
               /\ shown'[j].current_page = shown[j].current_page
       /\ "resume" \notin ops' => log' = log]_vars


\* C32: when a worker thread in which an exception was raised ends (no delete_job
\* was called), it ends by returning from run_job, not by an exception that
\* leaves it, and the record of its job is then a whole record with status
\* FAILED and an error that is not null.
C32_WorkerExceptionBecomesFailed ==
  [][\A w \in Workers :
       (/\ th[w].handler
        /\ Live(w)
        /\ th'[w].pc \in {"done", "dead"}
        /\ "delete" \notin ops')
         => /\ th'[w].pc = "done"
            /\ jobFile'[th[w].job].kind = "json"
            /\ jobFile'[th[w].job].rec.status = FAILED
            /\ jobFile'[th[w].job].rec.error # "null"]_vars

\* C33: a whole record whose error is not null has status FAILED.
C33_ErrorOnlyWhenFailed ==
  \A j \in Jobs :
    (jobFile[j].kind = "json" /\ jobFile[j].rec.error # "null")
      => jobFile[j].rec.status = FAILED

\* C34: when the write of a pause_job or stop_job lands, the record it stores
\* has the current_page of the last whole record written before it (the one the
\* worker wrote, when the worker's progress update came between the call's read
\* and its write).
C34_PauseStopKeepCurrentPage ==
  [][\A j \in Jobs :
       (/\ Ctl.pc = "sj_write" /\ Ctl.op \in {"pause", "stop"} /\ Ctl.job = j
        /\ Ctl'.pc = "ret"
        /\ shown[j] # NoRec
        /\ jobFile'[j].kind = "json")
         => jobFile'[j].rec.current_page = shown[j].current_page]_vars

\* Thread t is in a call or a run for job j.
WorksFor(t, j) == th[t].job = j /\ th[t].pc \notin {"idle", "done", "dead"}

\* C35: a step taken while no thread is in a call or a run for job j, and that is
\* not a call for j, leaves the job file and the results file of j as they were:
\* what is done for the other job does not touch them.
C35_OtherJobIsLeftAlone ==
  [][\A j \in AllJobs :
       (/\ \A t \in Threads : ~WorksFor(t, j)
        /\ ~(Ctl'.job = j /\ Ctl'.pc # "idle"))
         => /\ jobFile'[j] = jobFile[j]
            /\ resFile'[j] = resFile[j]]_vars

\* C36: every whole record in the job file of a job has the job_id, the
\* total_pages, the config and the created_at that create_job gave it, whatever
\* pause_job, resume_job, stop_job and the worker threads have done since.
C36_CreationFieldsAreKept ==
  \A j \in Jobs :
    jobFile[j].kind = "json"
    => /\ jobFile[j].rec.job_id = j
       /\ jobFile[j].rec.total_pages = NumPages
       /\ jobFile[j].rec.config = "cfg"
       /\ jobFile[j].rec.created_at = CreatedAt

\* The job was resumed, its worker has gone through the last page, and a
\* stop_job has been written.
C36_Witness ==
  /\ {"resume", "stop"} \subseteq ops
  /\ jobFile["A"].kind = "json"
  /\ jobFile["A"].rec.status = STOPPED
  /\ jobFile["A"].rec.current_page = NumPages
  /\ stopDone["A"]
  /\ \E w \in Workers : Len(log[w]) > 0

\* Worker w has left the page loop before its last page without a failure, and
\* no stop_job was called: its status check has found no record.
LeftOnDeleted(w) ==
  /\ th[w].op = "run" /\ ~th[w].handler /\ "stop" \notin ops
  /\ th[w].dfp # <<>> /\ th[w].i <= Len(th[w].dfp)
  /\ \/ th[w].pc = "w_final"
     \/ th[w].pc \in {"rs_open", "rs_write"} /\ th[w].cont = "w_comp"
     \/ th[w].pc \in {"uj_get", "sj_open", "sj_write"} /\ th[w].cont = "done"

\* C37: a step of a worker whose status check has found the record of its job
\* deleted hands no page to the analysis step and leaves the job file and the
\* results file of the job as they are.
C37_DeletedJobIsNotWrittenAgain ==
  [][\A w \in Workers :
       (LeftOnDeleted(w) /\ th'[w].pc # th[w].pc)
         => /\ log'[w] = log[w]
            /\ jobFile'[th[w].job] = jobFile[th[w].job]
            /\ resFile'[th[w].job] = resFile[th[w].job]]_vars

\* status_check_callback() returns should_stop to worker w in this state: the
\* record is STOPPED or there is none.
ShouldStop(w) ==
  LET f == jobFile[th[w].job]
  IN \/ GetJobOutcome(f) = "none"
     \/ GetJobOutcome(f) = "json" /\ f.rec.status = STOPPED

\* Worker w is in generate_link_suggestions at a status check.
AtStatusCheck(w) == th[w].op = "run" /\ th[w].pc \in {"w_check", "w_paused"}

\* generate_link_suggestions of worker w has left its loop on should_stop, before
\* the last row of the frame it was given, and the worker has met no exception.
BrokeOff(w) ==
  /\ th[w].op = "run" /\ ~th[w].handler
  /\ th[w].dfp # <<>> /\ th[w].i <= Len(th[w].dfp)
  /\ \/ th[w].pc = "w_final"
     \/ th[w].pc \in {"rs_open", "rs_write"} /\ th[w].cont = "w_comp"
     \/ th[w].pc \in {"uj_get", "sj_open", "sj_write"} /\ th[w].cont = "done"

\* C38: a page is handed to the analysis step only by a status check that did not
\* return should_stop, and it is the row the loop stands at; a status check that
\* returns should_stop ends the loop with no page handed over and no progress
\* report, and what generate_link_suggestions returns is the rows of the pages
\* it has analyzed, in order; after that no page is handed over and no progress
\* is reported.
C38_StopEndsThePageLoop ==
  [][\A w \in Workers :
       /\ log'[w] # log[w]
            => /\ AtStatusCheck(w) /\ ~ShouldStop(w)
               /\ log'[w] = Append(log[w], th[w].dfp[th[w].i])
       /\ (AtStatusCheck(w) /\ ShouldStop(w) /\ th'[w].pc # th[w].pc)
            => /\ th'[w].pc = "w_final"
               /\ th'[w].sug = RowsFor(log[w])
               /\ log'[w] = log[w]
               /\ reports'[w] = reports[w]
       /\ BrokeOff(w)
            => /\ log'[w] = log[w]
               /\ reports'[w] = reports[w]]_vars

\* The loop of the first worker has ended on a STOPPED record after the first
\* page, which gave rows and was reported, and before the last page.
C38_Witness ==
  /\ th[1].pc = "w_final" /\ BrokeOff(1)
  /\ jobFile["A"].kind = "json" /\ jobFile["A"].rec.status = STOPPED
  /\ log[1] = <<Pages[1]>>
  /\ th[1].sug # NoRows
  /\ Len(reports[1]) = 1

\* C39: during a crawl no URL is fetched twice, and the number of URLs fetched
\* is at most max_pages.
C39_EachUrlFetchedOnceWithinLimit ==
  probe.pc \in {"crawling", "crawled"}
  => /\ \A a, b \in 1..Len(probe.fetched) :
          probe.fetched[a] = probe.fetched[b] => a = b
     /\ Len(probe.fetched) <= probe.max_pages

\* The crawl has ended at the limit with URLs left to visit, one of them more
\* than once or visited already, and the last page fetched links to itself or
\* back to a page fetched before it.
C39_Witness ==
  /\ probe.pc = "crawled"
  /\ probe.max_pages >= 2
  /\ Len(probe.fetched) = probe.max_pages
  /\ \E n \in 1..Len(probe.found) : probe.found[n] \in probe.visited_urls
  /\ \E a, b \in 1..Len(probe.urls_to_visit) :
       a # b /\ probe.urls_to_visit[a] = probe.urls_to_visit[b]

====
